---- MODULE Spec2Model ----
(***************************************************************************)
(* Model of the PDF extraction tools of field_guide:                       *)
(*   tools/extract_content.py      (native extraction, TOC, skeleton)      *)
(*   tools/extract_content_ocr.py  (classifier, OCR/native, skeleton)      *)
(*   tools/extract_new_radios.py   (classifier, OCR/native, raw text)      *)
(* A text is a sequence of one-character strings.                          *)
(***************************************************************************)
EXTENDS Integers, Sequences, FiniteSets, TLC

VARIABLES
    tool,           \* which script runs
    args,           \* parsed command line
    OCR_AVAILABLE,  \* module-level flag set by the guarded import
    fs,             \* content/pdfs: radio index -> document kind of Catalog
    pc,             \* position of main()
    queue,          \* radios_to_process not yet visited
    cur,            \* radio of the current loop iteration (0: none)
    doc,            \* fitz handle of the running library call (page cursor)
    pages,          \* the list the running extractor accumulates
    result,         \* main()'s local `pages` and the method that produced it
    handles,        \* document handles opened and not closed
    files,          \* content/extracted: file name -> content
    out,            \* lines printed to stdout, abstracted to events
    calls,          \* library functions main()/check_pdfs() called, in order
    fin,            \* pure-function harness: the input
    fout            \* pure-function harness: the output

vars == <<tool, args, OCR_AVAILABLE, fs, pc, queue, cur, doc, pages, result,
          handles, files, out, calls, fin, fout>>

(***************************************************************************)
(* Characters and Python string primitives                                 *)
(***************************************************************************)
Upper == {"A","B","C","D","E","F","G","H","I","J","K","L","M",
          "N","O","P","Q","R","S","T","U","V","W","X","Y","Z"}
Lower == {"a","b","c","d","e","f","g","h","i","j","k","l","m",
          "n","o","p","q","r","s","t","u","v","w","x","y","z"}
Digit == {"0","1","2","3","4","5","6","7","8","9"}
\* str.strip(), str.split() and the regex class \s
Space == {" ", "\n", "\t", "\r"}

Range(s) == {s[i] : i \in 1..Len(s)}

\* index of the first character at or after i that is not in class
\* (Len(s) + 1 when the run reaches the end of the text)
SkipClass(s, i, class) ==
    IF i > Len(s) THEN i
    ELSE CHOOSE j \in i..(Len(s) + 1) :
            /\ (j > Len(s) \/ s[j] \notin class)
            /\ \A k \in i..(j - 1) : s[k] \in class

\* index of the last character at or before i that is not in class (0: none)
SkipClassBack(s, i, class) ==
    IF i < 1 THEN i
    ELSE CHOOSE j \in 0..i :
            /\ (j = 0 \/ s[j] \notin class)
            /\ \A k \in (j + 1)..i : s[k] \in class

SkipSpace(s, i) == SkipClass(s, i, Space)
SkipSpaceBack(s, i) == SkipClassBack(s, i, Space)

\* str.strip()
strip(s) == SubSeq(s, SkipSpace(s, 1), SkipSpaceBack(s, Len(s)))

\* index of the first whitespace character at or after i
SkipWord(s, i) ==
    IF i > Len(s) THEN i
    ELSE CHOOSE j \in i..(Len(s) + 1) :
            /\ (j > Len(s) \/ s[j] \in Space)
            /\ \A k \in i..(j - 1) : s[k] \notin Space

RECURSIVE JoinWords(_, _, _)
\* ' '.join(s.split()), scanning from index i; acc is the text built so far
JoinWords(s, i, acc) ==
    LET b == SkipSpace(s, i)
        e == SkipWord(s, b)
    IN IF b > Len(s) THEN acc
       ELSE JoinWords(s, e,
                IF acc = <<>> THEN SubSeq(s, b, e - 1)
                ELSE acc \o <<" ">> \o SubSeq(s, b, e - 1))

\* ' '.join(description.split())
NormalizeWhitespace(s) == JoinWords(s, 1, <<>>)

\* s[:n]
Truncate(s, n) == SubSeq(s, 1, IF Len(s) < n THEN Len(s) ELSE n)

\* c * n
Repeat(c, n) == [i \in 1..n |-> c]

RECURSIVE ParseInt(_, _, _)
\* int(digits): the decimal value of s[i..j]
ParseInt(s, i, j) ==
    IF j < i THEN 0
    ELSE 10 * ParseInt(s, i, j - 1)
         + (CHOOSE d \in 0..9 : ToString(d) = s[j])

\* index of the last "\n" in s[lo..hi], 0 when there is none
LastNewline(s, lo, hi) ==
    LET nl == {j \in lo..hi : s[j] = "\n"}
    IN IF nl = {} THEN 0 ELSE CHOOSE j \in nl : \A k \in nl : k <= j

\* ^ under re.MULTILINE
AtLineStart(s, p) == p = 1 \/ (p > 1 /\ p <= Len(s) + 1 /\ s[p - 1] = "\n")

\* the first index at or after p where ^ matches (beyond Len(s): none that a
\* pattern starting with a character can use)
LineStartFrom(s, p) ==
    IF AtLineStart(s, p) \/ p > Len(s) THEN p
    ELSE SkipClass(s, p, {c \in Range(s) : c # "\n"}) + 1

(***************************************************************************)
(* find_toc_entries: ^([A-Z][A-Za-z\s&/-]+?)\.{2,}\s*(\d+)\s*$  MULTILINE  *)
(***************************************************************************)
TitleChar == Upper \cup Lower \cup Space \cup {"&", "/", "-"}

\* pages[:10]
TocWindow == 10

NoMatch == [ok |-> FALSE]

\* One attempt of toc_pattern at index p. "." is outside the title class and
\* digits are outside \s, so the lazy title, the dot leader and the digits
\* have one possible extent each; \s*$ gives back whitespace to the last
\* newline of the run unless the run reaches the end of the text.
TocMatchAt(s, p) ==
    IF ~(p <= Len(s) /\ AtLineStart(s, p) /\ s[p] \in Upper) THEN NoMatch
    ELSE
    LET t == SkipClass(s, p + 1, TitleChar)
        d == SkipClass(s, t, {"."})
        w == SkipSpace(s, d)
        g == SkipClass(s, w, Digit)
        v == SkipSpace(s, g)
        n == LastNewline(s, g, v - 1)
    IN IF t < p + 2 \/ d - t < 2 \/ g = w THEN NoMatch
       ELSE IF v > Len(s) THEN
            [ok |-> TRUE, title |-> SubSeq(s, p, t - 1),
             page_num |-> SubSeq(s, w, g - 1), end |-> v]
       ELSE IF n > 0 THEN
            [ok |-> TRUE, title |-> SubSeq(s, p, t - 1),
             page_num |-> SubSeq(s, w, g - 1), end |-> n]
       ELSE NoMatch

RECURSIVE TocFindAll(_, _, _)
\* toc_pattern.findall(text) turned into entries, scanning from index p
TocFindAll(s, p, acc) ==
    IF LineStartFrom(s, p) > Len(s) THEN acc
    ELSE LET q == LineStartFrom(s, p)
             m == TocMatchAt(s, q)
         IN IF m.ok
            THEN TocFindAll(s, m.end,
                     Append(acc, [title |-> strip(m.title),
                                  page |-> ParseInt(m.page_num, 1, Len(m.page_num))]))
            ELSE TocFindAll(s, q + 1, acc)

RECURSIVE TocOverPages(_, _, _)
TocOverPages(ps, i, last) ==
    IF i > last THEN <<>>
    ELSE TocFindAll(ps[i].text, 1, <<>>) \o TocOverPages(ps, i + 1, last)

\* the slice is left out: every page is searched
find_toc_entries_AllPages(ps) == TocOverPages(ps, 1, Len(ps))

\* find_toc_entries(pages): the matches of the first ten pages, page by page
find_toc_entries(ps) ==
    TocOverPages(ps, 1, IF Len(ps) < TocWindow THEN Len(ps) ELSE TocWindow)

(***************************************************************************)
(* extract_menu_entries:                                                   *)
(*  ^([A-Z][A-Z0-9\s]{2,20})\s*[-:EN]\s*(.+?)                              *)
(*      (?=\n[A-Z][A-Z0-9\s]{2,20}\s*[-:EN]|\n\n|\Z)   MULTILINE | DOTALL  *)
(* EN is the en dash, written "en-dash" here.                              *)
(***************************************************************************)
NameChar == Upper \cup Digit \cup Space
Separator == {"-", ":", "en-dash"}
\* the bounds of {2,20} in menu_pattern
NameMin == 2
NameMax == 20
\* len(name) <= 20 and len(description) > 10; description[:500]
NameLimit == 20
MinDescription == 10
MaxDescription == 500

\* [A-Z][A-Z0-9\s]{2,20}\s*[-:EN] at index q. The separator is the first
\* character after q outside the name class; the greedy {2,20} takes as much
\* of the run before it as it can and \s* must cover the rest.
NameAt(s, q) ==
    IF ~(q <= Len(s) /\ s[q] \in Upper) THEN NoMatch
    ELSE
    LET t == SkipClass(s, q + 1, NameChar)
        k == IF t - 1 - q > NameMax THEN NameMax ELSE t - 1 - q
    IN IF t <= Len(s) /\ s[t] \in Separator /\ k >= NameMin
          /\ SkipSpace(s, q + k + 1) >= t
       THEN [ok |-> TRUE, name |-> SubSeq(s, q, q + k), sep |-> t]
       ELSE NoMatch

\* (?=\n NAME SEP | \n\n | \Z) at index e
Lookahead(s, e) ==
    \/ e > Len(s)
    \/ /\ s[e] = "\n"
       /\ \/ (e + 1 <= Len(s) /\ s[e + 1] = "\n")
          \/ NameAt(s, e + 1).ok

\* (.+?): the first index at or after e where the lookahead holds
LazyEnd(s, e) ==
    CHOOSE j \in e..(Len(s) + 1) :
        Lookahead(s, j) /\ \A k \in e..(j - 1) : ~Lookahead(s, k)

\* One attempt of menu_pattern at index p.
MenuMatchAt(s, p) ==
    IF ~AtLineStart(s, p) THEN NoMatch
    ELSE
    LET nm == NameAt(s, p)
    IN IF ~nm.ok THEN NoMatch
       ELSE
       LET b == SkipSpace(s, nm.sep + 1)
       IN IF b <= Len(s) THEN
               LET e == LazyEnd(s, b + 1)
               IN [ok |-> TRUE, name |-> nm.name,
                   description |-> SubSeq(s, b, e - 1), end |-> e]
          ELSE IF b > nm.sep + 1 THEN
               \* only whitespace follows the separator: \s* gives one back
               [ok |-> TRUE, name |-> nm.name,
                description |-> SubSeq(s, Len(s), Len(s)), end |-> Len(s) + 1]
          ELSE NoMatch

\* the filter with >= for > on the description length
MenuEntryOf_Inclusive(name, description) ==
    LET n == strip(name)
        d == NormalizeWhitespace(description)
    IN IF Len(n) <= NameLimit /\ Len(d) >= MinDescription
       THEN <<[type |-> "menuEntry", name |-> n,
               description |-> Truncate(d, MaxDescription)]>>
       ELSE <<>>

\* the filter without the limit on the length of the name
MenuEntryOf_AnyName(name, description) ==
    LET n == strip(name)
        d == NormalizeWhitespace(description)
    IN IF Len(d) > MinDescription
       THEN <<[type |-> "menuEntry", name |-> n,
               description |-> Truncate(d, MaxDescription)]>>
       ELSE <<>>

\* the body of the loop over matches: the filter and the entry built
MenuEntryOf(name, description) ==
    LET n == strip(name)
        d == NormalizeWhitespace(description)
    IN IF Len(n) <= NameLimit /\ Len(d) > MinDescription
       THEN <<[type |-> "menuEntry", name |-> n,
               description |-> Truncate(d, MaxDescription)]>>
       ELSE <<>>

RECURSIVE MenuFindAll(_, _, _)
\* menu_pattern.findall(text): the (name, description) pairs from index p on
MenuFindAll(s, p, acc) ==
    IF LineStartFrom(s, p) > Len(s) THEN acc
    ELSE LET q == LineStartFrom(s, p)
             m == MenuMatchAt(s, q)
         IN IF m.ok
            THEN MenuFindAll(s, m.end,
                     Append(acc, [name |-> m.name, description |-> m.description]))
            ELSE MenuFindAll(s, q + 1, acc)

RECURSIVE MenuEntriesOf(_, _)
MenuEntriesOf(ms, i) ==
    IF i > Len(ms) THEN <<>>
    ELSE MenuEntryOf(ms[i].name, ms[i].description) \o MenuEntriesOf(ms, i + 1)

extract_menu_entries(text) == MenuEntriesOf(MenuFindAll(text, 1, <<>>), 1)

(***************************************************************************)
(* The classifier: needs_ocr                                               *)
(***************************************************************************)
\* total_text < 500
OcrTextThreshold == 500

\* total_text = 0, total_images = 0
NeedsOcrStart == [total_text |-> 0, total_images |-> 0]

\* the body of `for page in doc`
NeedsOcrAdd(acc, page) ==
    [total_text |-> acc.total_text + Len(strip(page.text)),
     total_images |-> acc.total_images + page.images]

\* the threshold test with <= for <
NeedsOcrResult_Inclusive(acc) ==
    acc.total_text <= OcrTextThreshold /\ acc.total_images > 0

\* return total_text < 500 and total_images > 0
NeedsOcrResult(acc) ==
    acc.total_text < OcrTextThreshold /\ acc.total_images > 0

RECURSIVE NeedsOcrLoop(_, _, _)
NeedsOcrLoop(ps, i, acc) ==
    IF i > Len(ps) THEN acc ELSE NeedsOcrLoop(ps, i + 1, NeedsOcrAdd(acc, ps[i]))

\* needs_ocr on a document that opens and whose pages can be read
needs_ocr(ps) == NeedsOcrResult(NeedsOcrLoop(ps, 1, NeedsOcrStart))

(***************************************************************************)
(* Radios and documents                                                    *)
(***************************************************************************)
Tools == {"extract_content", "extract_content_ocr", "extract_new_radios"}

\* how many entries of MANUALS / NEW_RADIOS the model runs over
NumRadios == 2

\* download_pdfs.MANUALS, its first keys
MANUALS == <<"elecraft-k1", "elecraft-k2", "elecraft-kx1", "elecraft-kx2">>
\* NEW_RADIOS, four of its entries in list order
NEW_RADIOS == <<"icom-ic705", "venus-sw6b", "penntek-tr25", "bg2fx-fx4cr">>
NEEDS_OCR == {"venus-sw6b"}

Radios == 1..NumRadios
RadioTable(t) == IF t = "extract_new_radios" THEN NEW_RADIOS ELSE MANUALS
RadioId(r) == RadioTable(tool)[r]

\* list(MANUALS.keys()) / NEW_RADIOS
AllRadios == [i \in 1..NumRadios |-> i]

\* page texts of the documents the model runs over
TextMenu ==
    <<"M","E","N","U"," ","S","Y","S","T","E","M","\n","\n","C","W"," ","S",
      "P","E","E","D"," ","-"," ","S","e","t","s"," ","k","e","y","i","n",
      "g"," ","s","p","e","e","d",".","\n">>
TextToc ==
    <<"T","a","b","l","e"," ","o","f"," ","C","o","n","t","e","n","t","s",
      "\n","O","p","e","r","a","t","i","o","n",".",".",".",".",".",".",".",
      ".",".","."," ","3","\n">>
TextSpecLine ==
    <<"S","p","e","c","i","f","i","c","a","t","i","o","n","s",".",".",".",
      ".",".",".",".",".",".","."," ","4","2","\n">>
TextManual == TextSpecLine \o Repeat("x", 480)

\* A page: its embedded text layer, its embedded images and the text
\* image_to_string reads off its rendering.
NativePage(t, n) == [text |-> t, images |-> n, scan |-> t]
ScannedPage(t) == [text |-> <<>>, images |-> 1, scan |-> t]

\* The documents content/pdfs can hold: absent, not a PDF, without pages,
\* scanned, a text manual with figures, a short text-only document.
Catalog == <<
    [exists |-> FALSE, valid |-> FALSE, pages |-> <<>>],
    [exists |-> TRUE, valid |-> FALSE, pages |-> <<>>],
    [exists |-> TRUE, valid |-> TRUE, pages |-> <<>>],
    [exists |-> TRUE, valid |-> TRUE,
     pages |-> <<ScannedPage(TextToc), ScannedPage(TextMenu)>>],
    [exists |-> TRUE, valid |-> TRUE,
     pages |-> <<NativePage(TextManual, 1)>>],
    [exists |-> TRUE, valid |-> TRUE,
     pages |-> <<NativePage(TextMenu, 0), NativePage(TextToc, 0)>>] >>

Pdf(r) == Catalog[fs[r]]

\* MANUALS[radio_id]: the fields generate_skeleton reads
ManualInfo(id) ==
    CASE id = "elecraft-k1" ->
           [manufacturer |-> "Elecraft", name |-> "K1", revision |-> "J",
            filename |-> "E740016_K1_manual_rev_J.pdf"]
      [] id = "elecraft-k2" ->
           [manufacturer |-> "Elecraft", name |-> "K2", revision |-> "I",
            filename |-> "E740001_K2_Owners_Manual_Rev_I.pdf"]
      [] id = "elecraft-kx1" ->
           [manufacturer |-> "Elecraft", name |-> "KX1", revision |-> "E",
            filename |-> "KX1_Owners_Manual_Rev_E.pdf"]
      [] id = "elecraft-kx2" ->
           [manufacturer |-> "Elecraft", name |-> "KX2", revision |-> "B2",
            filename |-> "KX2_owners_man_B2.pdf"]

(***************************************************************************)
(* Skeleton assembly                                                       *)
(***************************************************************************)
target_sections == <<
    "Operation Basics",
    "Menu System Reference",
    "CW/Keyer Settings",
    "Filters & DSP",
    "Power & Battery",
    "ATU Operation",
    "Specifications",
    "Quick Troubleshooting" >>

\* sortOrder is enumerate's index, not the index plus one
SectionStub_ZeroBased(radio_id, title, i, source) ==
    [id |-> <<radio_id, "-", "slug", title>>,
     title |-> title,
     sortOrder |-> i - 1,
     blocks |-> << [type |-> "paragraph",
                    text |-> <<"[TODO: Extract ", title, " content from ", source, "]">>] >>,
     _sourcePages |-> "[TODO]"]

\* one entry of `sections`; i is enumerate's index plus one. The slug of the
\* f-string is kept as the pair it is computed from.
SectionStub(radio_id, title, i, source) ==
    [id |-> <<radio_id, "-", "slug", title>>,
     title |-> title,
     sortOrder |-> i,
     blocks |-> << [type |-> "paragraph",
                    text |-> <<"[TODO: Extract ", title, " content from ", source, "]">>] >>,
     _sourcePages |-> "[TODO]"]

Sections(radio_id, source) ==
    [i \in 1..Len(target_sections) |->
        SectionStub(radio_id, target_sections[i], i, source)]

\* extract_content.generate_skeleton(radio_id, pages, toc)
generate_skeleton(radio_id, ps, toc) ==
    [radio |-> [id |-> radio_id,
                manufacturer |-> "Elecraft",
                model |-> ManualInfo(radio_id).name,
                revision |-> ManualInfo(radio_id).revision,
                pdfFilename |-> ManualInfo(radio_id).filename],
     sections |-> Sections(radio_id, "PDF"),
     _extractedTOC |-> toc,
     _pageCount |-> Len(ps)]

\* extract_content_ocr.generate_skeleton(radio_id, pages)
generate_skeleton_ocr(radio_id, ps) ==
    [radio |-> [id |-> radio_id,
                manufacturer |-> ManualInfo(radio_id).manufacturer,
                model |-> ManualInfo(radio_id).name,
                revision |-> ManualInfo(radio_id).revision,
                pdfFilename |-> ManualInfo(radio_id).filename],
     sections |-> Sections(radio_id, "OCR text"),
     _pageCount |-> Len(ps),
     _extractionMethod |-> "ocr"]

\* the raw text dump: per page the separator lines, the PAGE header, the text
save_raw_text(ps) ==
    [i \in 1..Len(ps) |-> [PAGE |-> ps[i].page, text |-> ps[i].text]]

\* extract_new_radios writes the dump from a list of texts, numbering as it goes
save_raw_text_new(ps) ==
    [i \in 1..Len(ps) |-> [PAGE |-> i, text |-> ps[i]]]

RawTextName(radio_id, suffix) == radio_id \o "_raw_text" \o suffix \o ".txt"
SkeletonName(radio_id, suffix) == radio_id \o "_skeleton" \o suffix \o ".json"

\* open(name, "w") and the writes: the file is created or replaced
WriteFile(f, name, content) ==
    [n \in DOMAIN f \cup {name} |-> IF n = name THEN content ELSE f[n]]

(***************************************************************************)
(* main() and check_pdfs() of the three scripts                            *)
(***************************************************************************)
NoCall == [fn |-> "", i |-> 0, acc |-> NeedsOcrStart]
NoLocals == [ocr_needed |-> FALSE, pages |-> <<>>, suffix |-> ""]
\* a library function applied on its own: not yet returned / its return value
Pending == [done |-> FALSE, value |-> FALSE]
Returned(v) == [done |-> TRUE, value |-> v]
NoArgs == [check |-> FALSE, all |-> FALSE, radio_id |-> "", force_ocr |-> FALSE]

\* the command lines argparse accepts
ArgsOf(t) ==
    IF t = "extract_content"
    THEN {[NoArgs EXCEPT !.all = a, !.radio_id = MANUALS[r]] :
             a \in BOOLEAN, r \in Radios}
    ELSE IF t = "extract_content_ocr"
    THEN {[NoArgs EXCEPT !.check = TRUE]}
         \cup {[NoArgs EXCEPT !.all = a, !.radio_id = id, !.force_ocr = f] :
                  a \in BOOLEAN, f \in BOOLEAN,
                  id \in {""} \cup {MANUALS[r] : r \in Radios}}
    ELSE {[NoArgs EXCEPT !.check = TRUE]}
         \cup {[NoArgs EXCEPT !.radio_id = id] :
                  id \in {"", "no-such-radio"} \cup {NEW_RADIOS[r] : r \in Radios}}

Say(o, m, r) == Append(o, [msg |-> m, radio |-> r])

\* what the scripts print for a PDF that is not on disk
MissingMsg ==
    IF tool = "extract_new_radios"
    THEN (IF args.check THEN "MISSING" ELSE "Missing")
    ELSE (IF args.check THEN "missing" ELSE "PDF not found")

\* what main() prints when OCR is selected and the imports failed
OcrMissingMsg ==
    IF tool = "extract_new_radios"
    THEN "SKIPPED: needs OCR but dependencies not installed"
    ELSE "ERROR: OCR required but dependencies not installed."

OcrFn == IF tool = "extract_new_radios" THEN "extract_with_ocr" ELSE "extract_text_ocr"
NativeFn == IF tool = "extract_new_radios" THEN "extract_native" ELSE "extract_text_native"
NativeFns == {"extract_native", "extract_text_native", "extract_text_by_page"}
OcrFns == {"extract_with_ocr", "extract_text_ocr"}

\* An exception leaves the running library function. check_pdfs of
\* extract_content_ocr catches it around needs_ocr; nothing else does, and
\* the interpreter ends with a traceback. No close() runs on the way out.
Raised(o, stage) ==
    /\ doc' = NoCall
    /\ pages' = <<>>
    /\ IF args.check /\ tool = "extract_content_ocr"
       THEN /\ pc' = "loop"
            /\ out' = Say(o, "error", cur)
       ELSE /\ pc' = "crashed"
            /\ out' = Say(o, "Traceback: " \o stage, cur)

\* doc = fitz.open(pdf_path) at the top of fn, and the locals it sets up
Open(fn, o, next) ==
    /\ calls' = Append(calls, [fn |-> fn, radio |-> cur])
    /\ IF Pdf(cur).valid
       THEN /\ handles' = handles \cup {[fn |-> fn, radio |-> cur]}
            /\ doc' = [fn |-> fn, i |-> 1, acc |-> NeedsOcrStart]
            /\ pages' = <<>>
            /\ pc' = next
            /\ out' = o
       ELSE /\ handles' = handles
            /\ Raised(o, "fitz.open")

\* doc.close()
Close(fn) == handles' = handles \ {[fn |-> fn, radio |-> cur]}

\* parse_args and the choice of radios_to_process
Start ==
    /\ pc = "start"
    /\ IF args.check
       THEN /\ queue' = AllRadios
            /\ pc' = "loop"
            /\ out' = out
       ELSE IF tool = "extract_content_ocr" /\ ~args.all /\ args.radio_id = ""
       THEN /\ queue' = <<>>
            /\ pc' = "usage"
            /\ out' = Say(out, "error: Either provide a radio_id, use --all, or use --check", 0)
       ELSE IF tool = "extract_new_radios"
       THEN LET sel == IF args.radio_id = "" THEN AllRadios
                       ELSE SelectSeq(AllRadios, LAMBDA r : RadioId(r) = args.radio_id)
            IN /\ queue' = sel
               /\ pc' = IF sel = <<>> THEN "done" ELSE "loop"
               /\ out' = IF sel = <<>> THEN Say(out, "Unknown radio", 0) ELSE out
       ELSE /\ queue' = IF args.all THEN AllRadios
                        ELSE SelectSeq(AllRadios, LAMBDA r : RadioId(r) = args.radio_id)
            /\ pc' = "loop"
            /\ out' = out
    /\ UNCHANGED <<tool, args, OCR_AVAILABLE, fs, cur, doc, pages, result,
                   handles, files, calls, fin, fout>>

\* the head of the for loop: the next radio and the exists() test
NextRadio ==
    /\ pc = "loop"
    /\ queue # <<>>
    /\ LET r == Head(queue)
       IN /\ cur' = r
          /\ queue' = Tail(queue)
          /\ IF ~Pdf(r).exists
             THEN /\ pc' = "loop"
                  /\ out' = Say(out, MissingMsg, r)
                  /\ result' = result
             ELSE IF args.check
             THEN /\ pc' = "classify"
                  /\ out' = out
                  /\ result' = result
             ELSE /\ out' = Say(out, "Processing", r)
                  /\ IF tool = "extract_content"
                     THEN pc' = "extract_text" /\ result' = result
                     ELSE IF tool = "extract_new_radios" /\ RadioId(r) \in NEEDS_OCR
                     THEN /\ pc' = "decided"
                          /\ result' = [result EXCEPT !.ocr_needed = TRUE]
                     ELSE pc' = "classify" /\ result' = result
    /\ UNCHANGED <<tool, args, OCR_AVAILABLE, fs, doc, pages, handles, files,
                   calls, fin, fout>>

\* the loop is over
Finish ==
    /\ pc = "loop"
    /\ queue = <<>>
    /\ pc' = "done"
    /\ out' = IF args.check THEN out ELSE Say(out, "Done", 0)
    /\ UNCHANGED <<tool, args, OCR_AVAILABLE, fs, queue, cur, doc, pages,
                   result, handles, files, calls, fin, fout>>

\* needs_ocr(pdf_path) is called: fitz.open and the two counters
CallNeedsOcr ==
    /\ pc = "classify"
    /\ Open("needs_ocr", out, "needs_ocr")
    /\ UNCHANGED <<tool, args, OCR_AVAILABLE, fs, queue, cur, result, files,
                   fin, fout>>

\* one iteration of `for page in doc` in needs_ocr
NeedsOcrPage ==
    /\ pc = "needs_ocr"
    /\ doc.i <= Len(Pdf(cur).pages)
    /\ \E ok \in BOOLEAN :
          IF ok
          THEN /\ doc' = [doc EXCEPT !.i = @ + 1,
                                     !.acc = NeedsOcrAdd(@, Pdf(cur).pages[doc.i])]
               /\ UNCHANGED <<pc, out, pages>>
          ELSE Raised(out, "page.get_text")
    /\ UNCHANGED <<tool, args, OCR_AVAILABLE, fs, queue, cur, result, handles,
                   files, calls, fin, fout>>

\* the branches are swapped: OCR is selected when the classifier says Native
OcrNeeded_Swapped(acc) ==
    ~NeedsOcrResult(acc) \/ (tool = "extract_content_ocr" /\ args.force_ocr)

\* ocr_needed = needs_ocr(pdf_path) or args.force_ocr, with the classifier's
\* counters in acc; extract_new_radios has no --force-ocr
OcrNeeded(acc) ==
    NeedsOcrResult(acc) \/ (tool = "extract_content_ocr" /\ args.force_ocr)

\* needs_ocr closes the document and returns; the caller uses the result
NeedsOcrReturn ==
    /\ pc = "needs_ocr"
    /\ doc.i > Len(Pdf(cur).pages)
    /\ Close("needs_ocr")
    /\ doc' = NoCall
    /\ IF args.check
       THEN /\ out' = Say(out, IF NeedsOcrResult(doc.acc) THEN "OCR" ELSE "native", cur)
            /\ pc' = "loop"
            /\ result' = result
       ELSE /\ result' = [result EXCEPT !.ocr_needed = OcrNeeded(doc.acc)]
            /\ pc' = "decided"
            /\ out' = out
    /\ UNCHANGED <<tool, args, OCR_AVAILABLE, fs, queue, cur, pages, files,
                   calls, fin, fout>>

\* extract_text_ocr / extract_with_ocr is called: the guard on OCR_AVAILABLE,
\* then fitz.open
CallExtractOcr(o) ==
    IF ~OCR_AVAILABLE
    THEN /\ calls' = Append(calls, [fn |-> OcrFn, radio |-> cur])
         /\ handles' = handles
         /\ Raised(o, "RuntimeError: OCR dependencies not available")
    ELSE Open(OcrFn, o, "extract")

\* OCR is not available: the native extractor is used instead
OcrUnavailable_Fallback ==
    Open(NativeFn, Say(out, "Using native text extraction", cur), "extract")

\* main() with OCR selected and OCR_AVAILABLE false: report, next radio
OcrUnavailable ==
    /\ out' = Say(out, OcrMissingMsg, cur)
    /\ pc' = "loop"
    /\ UNCHANGED <<calls, handles, doc, pages>>

\* `if ocr_needed:` in main(): the branch taken and the extractor called
SelectExtractor ==
    /\ pc = "decided"
    /\ IF result.ocr_needed
       THEN IF ~OCR_AVAILABLE
            THEN OcrUnavailable
            ELSE CallExtractOcr(Say(out, "Using OCR", cur))
       ELSE Open(NativeFn, Say(out, "Using native text extraction", cur), "extract")
    /\ UNCHANGED <<tool, args, OCR_AVAILABLE, fs, queue, cur, result, files,
                   fin, fout>>

\* extract_content.main(): pages = extract_text_by_page(pdf_path)
CallExtractTextByPage ==
    /\ pc = "extract_text"
    /\ Open("extract_text_by_page", Say(out, "Extracting text", cur), "extract")
    /\ UNCHANGED <<tool, args, OCR_AVAILABLE, fs, queue, cur, result, files,
                   fin, fout>>

\* the page text is stripped before it is stored
NativeItem_Trimmed(page_num, page) ==
    IF doc.fn = "extract_native" THEN strip(page.text)
    ELSE [page |-> page_num + 1, text |-> strip(page.text)]

\* what a native extractor appends for the page at enumerate index page_num
NativeItem(page_num, page) ==
    IF doc.fn = "extract_native" THEN page.text
    ELSE [page |-> page_num + 1, text |-> page.text]

\* what an OCR extractor appends for the page at enumerate index page_num
OcrItem(page_num, text) ==
    IF doc.fn = "extract_with_ocr" THEN text
    ELSE [page |-> page_num + 1, text |-> text]

\* one iteration of the loop of a native extractor
ExtractNativePage ==
    /\ pc = "extract"
    /\ doc.fn \in NativeFns
    /\ doc.i <= Len(Pdf(cur).pages)
    /\ \E ok \in BOOLEAN :
          IF ok
          THEN /\ pages' = Append(pages, NativeItem(doc.i - 1, Pdf(cur).pages[doc.i]))
               /\ doc' = [doc EXCEPT !.i = @ + 1]
               /\ UNCHANGED <<pc, out>>
          ELSE Raised(out, "page.get_text")
    /\ UNCHANGED <<tool, args, OCR_AVAILABLE, fs, queue, cur, result, handles,
                   files, calls, fin, fout>>

\* the failed page is left out and the loop goes on
OcrPageFailed_Skip(step) ==
    /\ doc' = [doc EXCEPT !.i = @ + 1]
    /\ UNCHANGED <<pages, pc, out>>

\* get_pixmap or image_to_string raises inside the loop of an OCR extractor:
\* nothing catches it there
OcrPageFailed(step) == Raised(out, step)

\* one iteration of the loop of an OCR extractor: render, recognise, append,
\* print the progress line
ExtractOcrPage ==
    /\ pc = "extract"
    /\ doc.fn \in OcrFns
    /\ doc.i <= Len(Pdf(cur).pages)
    /\ \E step \in {"ok", "page.get_pixmap", "pytesseract.image_to_string"} :
          IF step = "ok"
          THEN /\ pages' = Append(pages, OcrItem(doc.i - 1, Pdf(cur).pages[doc.i].scan))
               /\ doc' = [doc EXCEPT !.i = @ + 1]
               /\ out' = Say(out, "Page", cur)
               /\ pc' = pc
          ELSE OcrPageFailed(step)
    /\ UNCHANGED <<tool, args, OCR_AVAILABLE, fs, queue, cur, result, handles,
                   files, calls, fin, fout>>

\* the extractor closes the document and returns its list to main()
ExtractReturn ==
    /\ pc = "extract"
    /\ doc.i > Len(Pdf(cur).pages)
    /\ Close(doc.fn)
    /\ result' = [result EXCEPT !.pages = pages,
                                !.suffix = IF doc.fn = "extract_text_ocr" THEN "_ocr" ELSE ""]
    /\ doc' = NoCall
    /\ pages' = <<>>
    /\ pc' = "save"
    /\ UNCHANGED <<tool, args, OCR_AVAILABLE, fs, queue, cur, files, out,
                   calls, fin, fout>>

\* save_raw_text, find_toc_entries, generate_skeleton and json.dump: the rest
\* of the loop body once main() holds the pages
Save ==
    /\ pc = "save"
    /\ LET id == RadioId(cur)
           ps == result.pages
       IN IF tool = "extract_content"
          THEN /\ files' = WriteFile(
                     WriteFile(files, RawTextName(id, ""), save_raw_text(ps)),
                     SkeletonName(id, ""),
                     generate_skeleton(id, ps, find_toc_entries(ps)))
               /\ out' = Say(Say(Say(out, "Raw text saved", cur),
                                 "Found TOC entries", cur), "Skeleton saved", cur)
          ELSE IF tool = "extract_content_ocr"
          THEN /\ files' = WriteFile(
                     WriteFile(files, RawTextName(id, result.suffix), save_raw_text(ps)),
                     SkeletonName(id, result.suffix),
                     generate_skeleton_ocr(id, ps))
               /\ out' = Say(Say(out, "Raw text saved", cur), "Skeleton saved", cur)
          ELSE /\ files' = WriteFile(files, RawTextName(id, ""), save_raw_text_new(ps))
               /\ out' = Say(out, "Saved raw_text", cur)
    /\ pc' = "loop"
    /\ UNCHANGED <<tool, args, OCR_AVAILABLE, fs, queue, cur, doc, pages,
                   result, handles, calls, fin, fout>>

\* a script is started on some content/pdfs directory
Init ==
    /\ tool \in Tools
    /\ args \in ArgsOf(tool)
    /\ OCR_AVAILABLE \in (IF tool = "extract_content" THEN {FALSE} ELSE BOOLEAN)
    /\ fs \in [Radios -> 1..Len(Catalog)]
    /\ pc = "start"
    /\ queue = <<>>
    /\ cur = 0
    /\ doc = NoCall
    /\ pages = <<>>
    /\ result = NoLocals
    /\ handles = {}
    /\ files = <<>>
    /\ out = <<>>
    /\ calls = <<>>
    /\ fin = <<>>
    /\ fout = Pending

Next ==
    \/ Start
    \/ NextRadio
    \/ Finish
    \/ CallNeedsOcr
    \/ NeedsOcrPage
    \/ NeedsOcrReturn
    \/ SelectExtractor
    \/ CallExtractTextByPage
    \/ ExtractNativePage
    \/ ExtractOcrPage
    \/ ExtractReturn
    \/ Save

Spec == Init /\ [][Next]_vars

(***************************************************************************)
(* The classifier applied to documents drawn from bounded sets.  fin holds *)
(* the description of the document: per page the length of the text        *)
(* between its surrounding whitespace, whether it is surrounded by         *)
(* whitespace, and the number of images.                                   *)
(***************************************************************************)
MaxDocPages == 2
MaxImages == 1
CoreLens == {0, 249, 250, 499, 500}

PageShapes ==
    [core : CoreLens, padded : BOOLEAN, images : 0..MaxImages]

\* the page a shape describes
PageOfShape(sh) ==
    [text |-> (IF sh.padded THEN <<" ">> ELSE <<>>)
              \o Repeat("x", sh.core)
              \o (IF sh.padded THEN <<"\n">> ELSE <<>>),
     images |-> sh.images,
     scan |-> <<>>]

DocOfShapes(shs) == [i \in 1..Len(shs) |-> PageOfShape(shs[i])]

\* no script is running
Idle ==
    /\ tool = ""
    /\ args = NoArgs
    /\ OCR_AVAILABLE = FALSE
    /\ fs = <<>>
    /\ pc = "call"
    /\ queue = <<>>
    /\ cur = 0
    /\ doc = NoCall
    /\ pages = <<>>
    /\ result = NoLocals
    /\ handles = {}
    /\ files = <<>>
    /\ out = <<>>
    /\ calls = <<>>

InitClassify ==
    /\ Idle
    /\ fin \in UNION {[1..n -> PageShapes] : n \in 0..MaxDocPages}
    /\ fout = Pending

\* needs_ocr runs on the document
ClassifyApply ==
    /\ pc = "call"
    /\ ~fout.done
    /\ fout' = Returned(needs_ocr(DocOfShapes(fin)))
    /\ UNCHANGED <<tool, args, OCR_AVAILABLE, fs, pc, queue, cur, doc, pages,
                   result, handles, files, out, calls, fin>>

NextClassify == ClassifyApply

SpecClassify == InitClassify /\ [][NextClassify]_vars

(***************************************************************************)
(* Menu-entry detection applied to texts put together from pieces.  fin    *)
(* holds the piece numbers.                                                *)
(***************************************************************************)
MaxPieces == 3

MenuPieces == <<
    <<"A","F"," ","-"," ","l","o","w","\n">>,
    <<"C","W"," ","S","P","E","E","D"," ","-"," ","S","e","t","s"," ","t",
      "h","e"," ","M","o","r","s","e"," ","c","o","d","e"," ","k","e","y",
      "i","n","g","\n"," "," ","s","p","e","e","d"," ","i","n"," ","w","o",
      "r","d","s"," ","p","e","r"," ","m","i","n","u","t","e",".","\n">>,
    <<"T","U","N","E",":"," ","0","1","2","3","4","5","6","7","8","9">>,
    <<"\n">>,
    <<"A","B","C","D","E","F","G","H","I","J","K","L","M","N","O","P","Q",
      "R","S","T","U"," ","-"," ","a"," ","d","e","s","c","r","i","p","t",
      "i","o","n"," ","l","o","n","g"," ","e","n","o","u","g","h","\n">>,
    <<"M","E","N","U"," ","S","Y","S","T","E","M","\n","\n","C","W"," ","S",
      "P","E","E","D"," ","-"," ","S","e","t","s"," ","k","e","y","i","n",
      "g"," ","s","p","e","e","d",".","\n">>,
    <<"M","O","D","E"," ","en-dash"," ">> \o Repeat("y", 250) \o <<" ", "\t">>
      \o Repeat("z", 260) \o <<"\n">>,
    <<"x">>,
    <<"V","O","X"," ","G","A","I","N"," "," "," ",":"," "," ">> >>

RECURSIVE TextOfPieces(_, _)
TextOfPieces(ps, i) ==
    IF i > Len(ps) THEN <<>> ELSE MenuPieces[ps[i]] \o TextOfPieces(ps, i + 1)

InitMenu ==
    /\ Idle
    /\ fin \in UNION {[1..n -> 1..Len(MenuPieces)] : n \in 0..MaxPieces}
    /\ fout = Pending

\* extract_menu_entries runs on the text
MenuApply ==
    /\ pc = "call"
    /\ ~fout.done
    /\ fout' = Returned(extract_menu_entries(TextOfPieces(fin, 1)))
    /\ UNCHANGED <<tool, args, OCR_AVAILABLE, fs, pc, queue, cur, doc, pages,
                   result, handles, files, out, calls, fin>>

NextMenu == MenuApply

SpecMenu == InitMenu /\ [][NextMenu]_vars

(***************************************************************************)
(* TOC detection applied to page sequences.  fin holds, per page, the      *)
(* number of its text in TocPageTexts; all but a few pages are prose.      *)
(***************************************************************************)
MaxTocPages == 11
MaxTocMarked == 2

TextProse == <<"I","n","t","r","o","d","u","c","t","i","o","n","\n","T",
      "h","e"," ","r","a","d","i","o"," ","c","o","v","e","r",
      "s"," ","4","0"," ","m",".","\n">>
TextTocDup ==
    <<"O","p","e","r","a","t","i","o","n"," "," ",".",".",".",
      ".",".",".","."," ","5","\n","M","e","n","u",".","."," ",
      "1","2","\n","M","e","n","u",".","."," ","1","2","\n">>

TocPageTexts == <<TextProse, TextTocDup, TextToc, TextSpecLine>>

\* the page sequence an extractor returns for the document fin describes
TocPagesOf(kinds) ==
    [i \in 1..Len(kinds) |-> [page |-> i, text |-> TocPageTexts[kinds[i]]]]

\* the page sequences of n pages with the pages of `marked` holding dot-leader
\* lines and the others prose
TocDocs(n, marked) ==
    {[i \in 1..n |-> IF i \in marked THEN k[i] ELSE 1] :
        k \in [marked -> 2..Len(TocPageTexts)]}

InitToc ==
    /\ Idle
    /\ \E n \in 0..MaxTocPages :
          \E marked \in {m \in SUBSET (1..n) : Cardinality(m) <= MaxTocMarked} :
              fin \in TocDocs(n, marked)
    /\ fout = Pending

\* find_toc_entries runs on the page sequence
TocApply ==
    /\ pc = "call"
    /\ ~fout.done
    /\ fout' = Returned(find_toc_entries(TocPagesOf(fin)))
    /\ UNCHANGED <<tool, args, OCR_AVAILABLE, fs, pc, queue, cur, doc, pages,
                   result, handles, files, out, calls, fin>>

NextToc == TocApply

SpecToc == InitToc /\ [][NextToc]_vars

(***************************************************************************)
(* Properties                                                              *)
(***************************************************************************)
RECURSIVE CoreTotal(_, _)
\* the trimmed text length of a described document, summed over pages i..
CoreTotal(shs, i) ==
    IF i > Len(shs) THEN 0 ELSE shs[i].core + CoreTotal(shs, i + 1)

RECURSIVE ImageTotal(_, _)
ImageTotal(shs, i) ==
    IF i > Len(shs) THEN 0 ELSE shs[i].images + ImageTotal(shs, i + 1)

\* C1: for every document the classifier returns OCR exactly when the
\* trimmed embedded text of all pages together is shorter than 500
\* characters and the document holds at least one image; otherwise Native
\* (500 or more characters with any image count, fewer than 500 without an
\* image, a document without pages).
C1_ClassifierRule ==
    fout.done =>
        (fout.value <=> (CoreTotal(fin, 1) < 500 /\ ImageTotal(fin, 1) >= 1))

\* C1 witness: a document of two whitespace-padded pages whose trimmed texts
\* total 499 characters is classified OCR
C1_Witness ==
    /\ fout.done
    /\ fout.value
    /\ Len(fin) = 2
    /\ CoreTotal(fin, 1) = 499
    /\ \A i \in 1..Len(fin) : fin[i].padded

\* the length of ' '.join(d.split()), counted from the characters of d
NormLen(d) ==
    LET ink == {i \in 1..Len(d) : d[i] \notin Space}
        starts == {i \in ink : i = 1 \/ d[i - 1] \in Space}
    IN Cardinality(ink) + (IF starts = {} THEN 0 ELSE Cardinality(starts) - 1)

\* the length of n.strip(), counted from the characters of n
TrimLen(n) ==
    LET ink == {i \in 1..Len(n) : n[i] \notin Space}
    IN Cardinality({i \in 1..Len(n) :
           (\E a \in ink : a <= i) /\ (\E b \in ink : i <= b)})

\* a matched (name, description) pair the filter has to let through
Qualifies(c) == TrimLen(c.name) <= 20 /\ NormLen(c.description) > 10

MenuCandidates == MenuFindAll(TextOfPieces(fin, 1), 1, <<>>)

\* C10: every entry menu-entry detection returns has a trimmed name of at
\* most 20 characters and a description without line breaks or runs of
\* spaces that was longer than 10 characters before truncation and is at
\* most 500 characters long; the entries are, in order, the candidates with
\* a trimmed name of at most 20 and a normalized description of more than 10
\* characters, so a candidate outside these bounds yields no entry.
C10_MenuEntryBounds ==
    fout.done =>
        LET good == SelectSeq(MenuCandidates, Qualifies)
        IN /\ Len(fout.value) = Len(good)
           /\ \A i \in 1..Len(fout.value) :
                 LET e == fout.value[i]
                 IN /\ Len(e.name) = TrimLen(good[i].name)
                    /\ Len(e.name) <= 20
                    /\ e.name[1] \notin Space
                    /\ e.name[Len(e.name)] \notin Space
                    /\ NormLen(good[i].description) > 10
                    /\ Len(e.description) =
                          (IF NormLen(good[i].description) > 500 THEN 500
                           ELSE NormLen(good[i].description))
                    /\ \A k \in 1..Len(e.description) :
                          /\ e.description[k] \in Space => e.description[k] = " "
                          /\ k > 1 => ~(e.description[k] = " "
                                        /\ e.description[k - 1] = " ")

\* C10 witness: a text with a candidate whose description is too short, one
\* whose name is too long, and an entry cut to 500 characters
C10_Witness ==
    /\ fout.done
    /\ \E i \in 1..Len(MenuCandidates) : NormLen(MenuCandidates[i].description) <= 10
    /\ \E i \in 1..Len(MenuCandidates) : TrimLen(MenuCandidates[i].name) > 20
    /\ \E i \in 1..Len(fout.value) : Len(fout.value[i].description) = 500

Last(sq) == sq[Len(sq)]

Suffixes == {"", "_ocr"}

\* the output files of radio r that exist
FilesOf(r) ==
    {RawTextName(RadioId(r), x) : x \in Suffixes}
    \cup {SkeletonName(RadioId(r), x) : x \in Suffixes}

\* the extraction method that produced the pages of radio r
MethodUsed(r) ==
    IF \E i \in 1..Len(calls) : calls[i].radio = r /\ calls[i].fn \in OcrFns
    THEN "ocr" ELSE "native"

\* C2: the extraction method a written skeleton records is the method that
\* produced its pages ("native" for native extraction, "ocr" for OCR).
C2_MethodRecorded ==
    \A r \in Radios : \A x \in Suffixes :
        LET n == SkeletonName(RadioId(r), x)
        IN (n \in DOMAIN files /\ "_extractionMethod" \in DOMAIN files[n])
              => files[n]._extractionMethod = MethodUsed(r)

\* C3: in a batch run a document that cannot be opened is reported and
\* skipped: its failure never ends the run while documents are still waiting.
C3_BatchSurvivesOpenFailure ==
    ~(/\ ~args.check
      /\ pc = "crashed"
      /\ Last(out).msg = "Traceback: fitz.open"
      /\ queue # <<>>)

\* C4: once a classifier or extractor call is over, however it ended, the
\* document handle it opened is closed: no handle stays open between calls.
C4_HandlesClosed ==
    doc.fn = "" => handles = {}

OcrMissingMsgs ==
    {"ERROR: OCR required but dependencies not installed.",
     "SKIPPED: needs OCR but dependencies not installed"}
OpenFailureMsgs ==
    {"PDF not found", "Missing", "missing", "MISSING", "Traceback: fitz.open"}

C5_Reported ==
    \A i \in 1..Len(out) :
        out[i].msg \in OcrMissingMsgs =>
            /\ FilesOf(out[i].radio) \cap DOMAIN files = {}
            /\ \A k \in 1..Len(calls) :
                  calls[k].radio = out[i].radio => calls[k].fn = "needs_ocr"

C5_Step ==
    (pc = "decided" /\ result.ocr_needed /\ ~OCR_AVAILABLE) =>
        /\ pc' = "loop"
        /\ queue' = queue
        /\ files' = files
        /\ calls' = calls
        /\ handles' = handles
        /\ Len(out') = Len(out) + 1
        /\ Last(out').radio = cur
        /\ Last(out').msg \in OcrMissingMsgs \ OpenFailureMsgs

\* C5: when OCR is selected for a document and the OCR engine is not
\* available (OCR_AVAILABLE is false: the imports of pytesseract and PIL
\* failed), main() reports exactly that (a message of its own, not the one
\* of a document that cannot be opened), calls no extractor for the document
\* (no fallback to native extraction), writes neither its raw-text dump nor
\* its skeleton, and goes on with the next document of the batch.
C5_OcrUnavailableReported == []C5_Reported /\ [][C5_Step]_vars

\* C5 witness: OCR was unavailable for one document and a later document of
\* the same batch was extracted and saved
C5_Witness ==
    \E i \in 1..Len(out) : \E j \in 1..Len(out) :
        /\ i < j
        /\ out[i].msg \in OcrMissingMsgs
        /\ out[j].msg \in {"Raw text saved", "Saved raw_text"}
        /\ out[j].radio # out[i].radio

\* C6: an extractor that returns has produced one record per page of the
\* document, numbered 1..N in document order; a native extractor hands the
\* embedded text of each page on unmodified.
C6_PagesComplete ==
    pc = "save" =>
        LET ps == result.pages
            src == Pdf(cur).pages
        IN /\ Len(ps) = Len(src)
           /\ \A i \in 1..Len(ps) :
                 /\ tool # "extract_new_radios" => ps[i].page = i
                 /\ Last(calls).fn \in NativeFns =>
                       (IF tool = "extract_new_radios" THEN ps[i] ELSE ps[i].text)
                          = src[i].text

\* C6 witness: native extraction returned the two pages of a document whose
\* first page ends in a line break
C6_Witness ==
    /\ pc = "save"
    /\ Last(calls).fn \in NativeFns
    /\ Len(result.pages) = 2
    /\ tool # "extract_new_radios"
    /\ result.pages[1].text = TextMenu
    /\ result.pages[2].page = 2

RecognitionFailed ==
    pc = "crashed" /\ Last(out).msg = "Traceback: pytesseract.image_to_string"

C7_Aborted ==
    /\ pc = "save" /\ Last(calls).fn \in OcrFns =>
          /\ Len(result.pages) = Len(Pdf(cur).pages)
          /\ \A i \in 1..Len(result.pages) :
                (IF tool = "extract_new_radios" THEN result.pages[i]
                 ELSE result.pages[i].text) = Pdf(cur).pages[i].scan
    /\ RecognitionFailed => FilesOf(cur) \cap DOMAIN files = {}

C7_Step ==
    RecognitionFailed' => (files' = files /\ result' = result)

\* C7: when recognition fails on a page the OCR extraction of the document is
\* aborted: an OCR extractor only ever returns the complete page sequence,
\* the failed document gets neither raw-text dump nor skeleton, and the
\* files written for earlier documents of the batch stay as they are.
C7_RecognitionFailureAborts == []C7_Aborted /\ [][C7_Step]_vars

\* C7 witness: recognition failed on the second page of a document after an
\* earlier document of the batch had been saved
C7_Witness ==
    /\ RecognitionFailed
    /\ DOMAIN files # {}
    /\ Len(out) >= 2
    /\ out[Len(out) - 1].msg = "Page"
    /\ out[Len(out) - 1].radio = cur

SkeletonNames ==
    {SkeletonName(RadioId(r), x) : r \in Radios, x \in Suffixes} \cap DOMAIN files

TemplateTitles == <<
    "Operation Basics", "Menu System Reference", "CW/Keyer Settings",
    "Filters & DSP", "Power & Battery", "ATU Operation", "Specifications",
    "Quick Troubleshooting" >>

\* C8: every skeleton holds the same 8 section stubs, one per title of the
\* template and in its order, with sortOrder 1..8, whatever the radio and
\* whatever was extracted.
C8_FixedSections ==
    \A n \in SkeletonNames :
        /\ Len(files[n].sections) = Len(TemplateTitles)
        /\ Len(files[n].sections) = 8
        /\ \A i \in 1..Len(files[n].sections) :
              /\ files[n].sections[i].title = TemplateTitles[i]
              /\ files[n].sections[i].sortOrder = i

\* C8 witness: skeletons of two radios built from different numbers of pages
C8_Witness ==
    \E n \in SkeletonNames : \E m \in SkeletonNames :
        /\ files[n].radio.id # files[m].radio.id
        /\ files[n]._pageCount # files[m]._pageCount

\* C9: every skeleton written, whichever extractor produced its pages,
\* carries the TOC candidates found in those pages and the page count, and
\* the page count is the number of pages extracted.
C9_TocAndPageCount ==
    \A r \in Radios : \A x \in Suffixes :
        LET n == SkeletonName(RadioId(r), x)
            raw == RawTextName(RadioId(r), x)
        IN n \in DOMAIN files =>
              /\ files[n]._pageCount = Len(files[raw])
              /\ "_extractedTOC" \in DOMAIN files[n]
              /\ files[n]._extractedTOC = find_toc_entries(files[raw])

\* the entries a page of each text of TocPageTexts holds, top to bottom
TocEntriesOfText == <<
    <<>>,
    <<[title |-> <<"O","p","e","r","a","t","i","o","n">>, page |-> 5],
      [title |-> <<"M","e","n","u">>, page |-> 12],
      [title |-> <<"M","e","n","u">>, page |-> 12]>>,
    <<[title |-> <<"T","a","b","l","e"," ","o","f"," ","C","o","n","t","e",
         "n","t","s","\n","O","p","e","r","a","t","i","o","n">>,
       page |-> 3]>>,
    <<[title |-> <<"S","p","e","c","i","f","i","c","a","t","i","o","n","s">>, page |-> 42]>> >>

RECURSIVE TocEntriesFrom(_, _, _)
\* the entries of pages i..last of the document, in page order
TocEntriesFrom(kinds, i, last) ==
    IF i > last \/ i > Len(kinds) THEN <<>>
    ELSE TocEntriesOfText[kinds[i]] \o TocEntriesFrom(kinds, i + 1, last)

\* C11: TOC detection returns the entries of the first 10 pages and of no
\* later page, in page order and top to bottom within a page, duplicates
\* kept, each title without surrounding whitespace.
C11_TocWindowAndOrder ==
    fout.done =>
        /\ fout.value = TocEntriesFrom(fin, 1, 10)
        /\ \A i \in 1..Len(fout.value) :
              LET t == fout.value[i].title
              IN t # <<>> /\ t[1] \notin Space /\ t[Len(t)] \notin Space

\* C11 witness: an 11-page document with a page of dot-leader lines (one of
\* them twice, one with blanks before the leader) among the first 10 pages
\* and another as page 11
C11_Witness ==
    /\ fout.done
    /\ Len(fin) = 11
    /\ fin[11] = 4
    /\ \E i \in 1..10 : fin[i] = 2
    /\ Len(fout.value) = 3

CheckReportMsgs == {"OCR", "native", "error", "missing", "MISSING"}

\* C12: in --check mode no extractor is called and no file is written, and
\* when the run is over every known document other than one that could not
\* be classified has its line in the report: a missing or unclassifiable
\* document does not stop the report for the others.
C12_CheckReportsEveryDocument ==
    args.check =>
        /\ DOMAIN files = {}
        /\ \A k \in 1..Len(calls) : calls[k].fn = "needs_ocr"
        /\ pc \in {"done", "crashed"} =>
              \A r \in Radios :
                  (pc = "done" \/ r # cur) =>
                      \E i \in 1..Len(out) :
                          out[i].radio = r /\ out[i].msg \in CheckReportMsgs

\* the page text "MENU SYSTEM\n\nCW SPEED - Sets keying speed.\n"
MenuSystemText == MenuPieces[6]

\* C13 as stated: menu-entry detection on that page text yields exactly one
\* entry, named "MENU SYSTEM" and described "CW SPEED - Sets keying speed.".
C13_MenuSystemEntry ==
    (fout.done /\ TextOfPieces(fin, 1) = MenuSystemText) =>
        fout.value =
            <<[type |-> "menuEntry",
               name |-> <<"M","E","N","U"," ","S","Y","S","T","E","M">>,
               description |->
                   <<"C","W"," ","S","P","E","E","D"," ","-"," ">> \o
                   <<"S","e","t","s"," ","k","e","y","i","n","g"," ","s","p","e","e","d",".">>]>>

\* C13 amended: menu-entry detection on that page text yields no entry. The
\* one match of the pattern starts at "MENU SYSTEM" and its name runs over
\* the blank line to the separator ("MENU SYSTEM\n\nCW SPEED", 21
\* characters), which the 20-character limit on names rejects.
C13_MenuSystemNoEntry ==
    (fout.done /\ TextOfPieces(fin, 1) = MenuSystemText) =>
        /\ fout.value = <<>>
        /\ LET ms == MenuFindAll(MenuSystemText, 1, <<>>)
           IN /\ Len(ms) = 1
              /\ Len(strip(ms[1].name)) = 21
              /\ NormalizeWhitespace(ms[1].description) =
                    <<"S","e","t","s"," ","k","e","y","i","n","g"," ","s","p","e","e","d",".">>

\* C13 witness: detection has run on exactly that text
C13_Witness ==
    /\ fout.done
    /\ fin = <<6>>
    /\ TextOfPieces(fin, 1) = TextMenu

\* the positions in the call history of the classifier / extractor calls
\* made for radio r
ClassifierCalls(r) ==
    {k \in 1..Len(calls) : calls[k].radio = r /\ calls[k].fn = "needs_ocr"}
ExtractorCalls(r) ==
    {k \in 1..Len(calls) : calls[k].radio = r /\ calls[k].fn \in OcrFns \cup NativeFns}

\* what the classifier returns for the document of radio r
Classified(r) == needs_ocr(Pdf(r).pages)

====
